---- MODULE Spec2Model ----
(***************************************************************************)
(* Model of Hive/utils/file_utils.py: the dataset copy pipeline            *)
(* (copy_data_to_dataset_folder and the worker pool it schedules on), the  *)
(* label copy (copy_label_file), the instance sidecar of a label map, the  *)
(* train/test split (split_dataset) and remove_empty_folder_recursive.     *)
(*                                                                         *)
(* File names are sequences of one-character strings, so that the string   *)
(* operations of the code (+, str.replace, str.endswith, str.format, str)  *)
(* are computed character by character.                                    *)
(***************************************************************************)
EXTENDS Integers, Sequences, FiniteSets, TLC

(***************************************************************************)
(* Bounds of the model.                                                    *)
(***************************************************************************)
MaxThreads == 2
MaxFaults == 1
MaxVoxels == 2
MaxLabelVoxels == 4
MaxSubfolders == 3
MaxDepth == 2
MaxFiles == 3

(***************************************************************************)
(* Python string operations.                                               *)
(***************************************************************************)
RECURSIVE Flatten(_)
Flatten(ss) == IF ss = <<>> THEN <<>> ELSE Head(ss) \o Flatten(Tail(ss))

StartsWith(s, p) == Len(p) <= Len(s) /\ SubSeq(s, 1, Len(p)) = p

EndsWith(s, p) == Len(p) <= Len(s) /\ SubSeq(s, Len(s) - Len(p) + 1, Len(s)) = p

\* str.replace(old, new): every non-overlapping occurrence, scanning from the left
RECURSIVE PyReplace(_, _, _)
PyReplace(s, old, new) ==
    IF old = <<>>
    THEN new \o Flatten([n \in 1..Len(s) |-> <<s[n]>> \o new])
    ELSE IF Len(s) < Len(old) THEN s
    ELSE IF StartsWith(s, old)
         THEN new \o PyReplace(SubSeq(s, Len(old) + 1, Len(s)), old, new)
         ELSE <<Head(s)>> \o PyReplace(Tail(s), old, new)

DigitChar(d) == <<"0", "1", "2", "3", "4", "5", "6", "7", "8", "9">>[d + 1]

RECURSIVE Decimal(_)
Decimal(n) == IF n < 10 THEN <<DigitChar(n)>> ELSE Decimal(n \div 10) \o <<DigitChar(n % 10)>>

RECURSIVE ZeroPad(_, _)
ZeroPad(s, width) == IF Len(s) >= width THEN s ELSE ZeroPad(<<"0">> \o s, width)

\* "_{0:04d}".format(n)
Format04(n) == <<"_">> \o ZeroPad(Decimal(n), 4)

\* repr of a str without quotes or backslashes in it
PyRepr(s) == <<"'">> \o s \o <<"'">>

RECURSIVE JoinComma(_)
JoinComma(ss) ==
    IF ss = <<>> THEN <<>>
    ELSE IF Len(ss) = 1 THEN Head(ss)
    ELSE Head(ss) \o <<",", " ">> \o JoinComma(Tail(ss))

\* str(v) of a configuration value: None, a str, or a list of str
PyStr(v) ==
    IF v.type = "NoneType" THEN [type |-> "str", val |-> <<"N", "o", "n", "e">>]
    ELSE IF v.type = "str" THEN v
    ELSE [type |-> "str",
          val |-> <<"[">> \o JoinComma([n \in 1..Len(v.val) |-> PyRepr(v.val[n])]) \o <<"]">>]

(***************************************************************************)
(* Inputs: the names the runs are drawn from.                              *)
(***************************************************************************)
ExtN == <<".", "n">>
SufA == <<"_", "a", ".", "n">>
SufB == <<"_", "b", ".", "n">>
SufExt == <<".", "n">>
SufG == <<"_", "c", ".", "g">>
SufS == <<"_", "s", ".", "n">>
SufT == <<"_", "t", ".", "n">>
IdP1 == <<"P", "1">>
IdP2 == <<"P", "2">>
IdAn == <<"A", ".", "n">>
IdAsn == <<"A", "_", "s", ".", "n">>

None == [type |-> "NoneType"]
Number(k) == [type |-> "int", val |-> k]
Str(s) == [type |-> "str", val |-> s]
List(l) == [type |-> "list", val |-> l]

\* the sequences without repetition over a set (a listing, the keys of a dict)
RECURSIVE DistinctSeqs(_)
DistinctSeqs(S) ==
    {<<>>} \cup UNION {{<<x>> \o q : q \in DistinctSeqs(S \ {x})} : x \in S}

Range(f) == {f[n] : n \in DOMAIN f}

VARIABLES
    \* arguments of copy_data_to_dataset_folder and the environment
    subjects, config_dict, label_folder, num_threads, save_label_instance_config,
    environ, faults_left,
    \* the source tree: per listed subject, the file names of its folder
    folder,
    \* locals of copy_data_to_dataset_folder
    pc, directory_index, image_suffix, copied_files, collected, raised_by, warnings,
    \* the worker pool and the destination folders
    pool, dest,
    \* the run before this one, over the same source tree
    previous_run,
    \* a call of copy_label_file by itself: its two volumes, and the volume it wrote
    input_image, input_label, output_label,
    \* the instance sidecar of a label map by itself
    json_dict,
    \* calls of split_dataset: the folder, the arguments, the generator, the results
    input_data_folder, test_split_ratio, seed, shuffle, splits,
    \* a call of remove_empty_folder_recursive: the tree under the root folder at the
    \* call and now, the order of glob, whether the call raised
    tree_at_call, tree, glob_order, rmdir_raised,
    \* a call of order_data_folder_by_patient on such a tree: its pattern, its list
    \* of patient IDs, what it raised
    file_pattern, patient_id_list, order_raised

label_call == <<input_image, input_label, output_label, json_dict>>
split_call == <<input_data_folder, test_split_ratio, seed, shuffle, splits>>
remove_call == <<tree_at_call, tree, glob_order, rmdir_raised>>
order_call == <<file_pattern, patient_id_list, order_raised>>
\* what no step of a run of copy_data_to_dataset_folder changes
args == <<subjects, config_dict, label_folder, num_threads, save_label_instance_config,
          environ, previous_run, label_call, split_call, remove_call, order_call>>
\* the variables of a run of copy_data_to_dataset_folder
run_vars == <<subjects, config_dict, label_folder, num_threads,
              save_label_instance_config, environ, faults_left, folder,
              directory_index, image_suffix, copied_files, collected, raised_by,
              warnings, pool, dest, previous_run>>
vars == <<run_vars, pc, label_call, split_call, remove_call, order_call>>


\* no sidecar yet; a sidecar {"instances": {key: value, ...}} is the set of its items
NoJson == [written |-> FALSE, instances |-> {}]
Json(items) == [written |-> TRUE, instances |-> items]

NoVolume == [dtype |-> "none", voxels |-> <<>>, affine |-> <<>>]

Volume(dtype, voxels, affine) == [dtype |-> dtype, voxels |-> voxels, affine |-> affine]

\* the volume of a source file of the run is named by the file: every file has
\* its own voxels and its own affine
SourceVolume(n, name) == Volume("stored", <<n, name>>, <<n, name>>)

\* the instance sidecar computed from the label file `name` of subject n
Sidecar(n, name) == Volume("json", <<n, name>>, <<>>)

(***************************************************************************)
(* The source tree.  folder[n] is the folder of subjects[n]: not looked at *)
(* yet, missing, or the set of the names of its files.                     *)
(***************************************************************************)
Unlisted == [state |-> "unlisted", names |-> {}]
NoDir == [state |-> "missing", names |-> {}]
Dir(names) == [state |-> "dir", names |-> names]

\* subfiles(folder, join=False, suffix=suffix): the names that end with suffix
subfiles(names, suffix) == {f \in names : EndsWith(f, suffix)}

(***************************************************************************)
(* copy_data_to_dataset_folder: the body of the loop over the subjects.    *)
(***************************************************************************)
FileExtension == PyStr(config_dict.FileExtension).val
image_suffix_list == config_dict.Modalities
label_suffix == PyStr(config_dict.label_suffix)

Bound(s) == [bound |-> TRUE, val |-> s]
Unbound == [bound |-> FALSE, val |-> <<>>]

Task(kind, n, channel, ref, src, out_folder, out_name) ==
    [kind |-> kind, subject |-> n, channel |-> channel, ref |-> ref, src |-> src,
     folder |-> out_folder, name |-> out_name, status |-> "pending"]

\* the name of the image of modality m (0-based) in the images folder
updated_image_filename(directory, m) ==
    PyReplace(directory \o image_suffix_list[m + 1], image_suffix_list[m + 1],
              Format04(m) \o FileExtension)

\* the name of the label of a single-label run in the labels folder
updated_label_filename(directory, suffix) ==
    PyReplace(directory \o suffix, suffix, FileExtension)

\* the name of the label of task t (0-based) of a multi-label run
updated_multi_label_filename(directory, suffix, t) ==
    PyReplace(directory \o suffix, suffix, Format04(t) \o FileExtension)

\* the name of the instance sidecar of a label
sidecar_filename(directory, suffix) ==
    PyReplace(directory \o suffix, suffix, <<".", "j", "s", "o", "n">>)

\* "if label_filename in files"
LabelInListingAlways(label_filename, files) == TRUE
LabelInListing(label_filename, files) == label_filename \in files

\* the modalities whose file is in the listing, in the order of the mapping
PresentModalitiesButFirst(directory, files) ==
    SelectSeq([k \in 1..Len(image_suffix_list) |-> k - 1],
              LAMBDA m : m > 0 /\ (directory \o image_suffix_list[m + 1]) \in files)
PresentModalities(directory, files) ==
    SelectSeq([k \in 1..Len(image_suffix_list) |-> k - 1],
              LAMBDA m : (directory \o image_suffix_list[m + 1]) \in files)

ImageTasks(n, directory, files) ==
    LET present == PresentModalities(directory, files) IN
    [k \in 1..Len(present) |->
        Task("image", n, present[k], <<>>, directory \o image_suffix_list[present[k] + 1],
             "images", updated_image_filename(directory, present[k]))]

ImageWarnings(n, directory, files) ==
    {[subject |-> n, kind |-> "image", channel |-> k - 1] :
        k \in {q \in 1..Len(image_suffix_list) :
                  (directory \o image_suffix_list[q]) \notin files}}

\* the value of the loop variable image_suffix once the loop over the modalities ended
LeakedImageSuffix(previous) ==
    IF Len(image_suffix_list) = 0 THEN previous
    ELSE Bound(image_suffix_list[Len(image_suffix_list)])

\* the branch taken at "if label_suffix is not None and label_folder is not None
\* and type(label_suffix) != list ... elif type(label_suffix) == list and label_folder
\* is not None"
LabelBranch ==
    IF label_suffix.type # "list" /\ label_folder THEN "single"
    ELSE IF label_suffix.type = "list" /\ label_folder THEN "multi"
    ELSE "none"

\* the outcome of the loop body for subject n, whose folder is `content`
LoopBody(n, content, sidecar_fails, suffix_before) ==
    LET directory == subjects[n]
        files == subfiles(content.names, FileExtension)
        images == ImageTasks(n, directory, files)
        suffix_after == LeakedImageSuffix(suffix_before)
        nothing == [tasks |-> <<>>, warnings |-> {}, image_suffix |-> suffix_before,
                    sidecars |-> {}, raised |-> "no"]
        after_images == [nothing EXCEPT !.tasks = images,
                                        !.warnings = ImageWarnings(n, directory, files),
                                        !.image_suffix = suffix_after]
    IN
    IF content.state = "missing" THEN [nothing EXCEPT !.raised = "listing"]
    ELSE IF LabelBranch = "single" THEN
        LET label_filename == directory \o label_suffix.val IN
        IF LabelInListing(label_filename, files) THEN
            IF ~suffix_after.bound THEN [after_images EXCEPT !.raised = "unbound"]
            ELSE
            LET label == Task("label", n, 0, directory \o suffix_after.val, label_filename,
                              "labels", updated_label_filename(directory, label_suffix.val))
                scheduled == [after_images EXCEPT !.tasks = images \o <<label>>]
            IN
            IF ~save_label_instance_config THEN scheduled
            ELSE IF sidecar_fails THEN [scheduled EXCEPT !.raised = "sidecar"]
            ELSE [scheduled EXCEPT
                     !.sidecars = {[folder |-> "labels",
                                    name |-> sidecar_filename(directory, label_suffix.val),
                                    content |-> Sidecar(n, label_filename)]}]
        ELSE [after_images EXCEPT
                 !.warnings = @ \cup {[subject |-> n, kind |-> "label", channel |-> 0]}]
    ELSE IF LabelBranch = "multi" THEN
        LET present == SelectSeq([k \in 1..Len(label_suffix.val) |-> k - 1],
                                 LAMBDA t : (directory \o label_suffix.val[t + 1]) \in files)
            absent == {t \in 0..(Len(label_suffix.val) - 1) :
                          (directory \o label_suffix.val[t + 1]) \notin files}
        IN
        IF present # <<>> /\ ~suffix_after.bound
        THEN [after_images EXCEPT !.raised = "unbound"]
        ELSE [after_images EXCEPT
                 !.tasks = images \o
                     [k \in 1..Len(present) |->
                         Task("label", n, present[k],
                              directory \o suffix_after.val,
                              directory \o label_suffix.val[present[k] + 1], "labels",
                              updated_multi_label_filename(
                                  directory, label_suffix.val[present[k] + 1], present[k]))],
                 !.warnings = @ \cup {[subject |-> n, kind |-> "label", channel |-> t] :
                                         t \in absent}]
    ELSE after_images

(***************************************************************************)
(* The runs: arguments, configuration and environment.                     *)
(***************************************************************************)
\* the suffixes the configuration names: a folder holds some of these files
ConfiguredSuffixes ==
    Range(config_dict.Modalities) \cup
    (IF config_dict.label_suffix.type = "str" THEN {config_dict.label_suffix.val}
     ELSE IF config_dict.label_suffix.type = "list" THEN Range(config_dict.label_suffix.val)
     ELSE {})

FolderChoices(directory) ==
    {Dir({directory \o x : x \in present}) : present \in SUBSET ConfiguredSuffixes}
    \cup (IF faults_left > 0 THEN {NoDir} ELSE {})

\* no call of copy_label_file, split_dataset or remove_empty_folder_recursive
NoLabelCall ==
    /\ input_image = NoVolume
    /\ input_label = NoVolume
    /\ output_label = NoVolume
    /\ json_dict = NoJson

NoSplitCall ==
    /\ input_data_folder = {}
    /\ test_split_ratio = 0
    /\ seed = 0
    /\ shuffle = <<>>
    /\ splits = <<>>

NoOrderCall ==
    /\ file_pattern = <<>>
    /\ patient_id_list = <<>>
    /\ order_raised = "no"

NoRemoveCall ==
    /\ tree_at_call = {}
    /\ tree = {}
    /\ glob_order = <<>>
    /\ rmdir_raised = FALSE

\* os.environ: N_THREADS is not set, or set to a text
Unset == [set |-> FALSE, val |-> <<>>]
Set(text) == [set |-> TRUE, val |-> text]

NoPool == [state |-> "none", processes |-> 0]
NoPreviousRun == [ran |-> FALSE, folder |-> <<>>, dest |-> {}, processes |-> 0, pc |-> "none"]

\* the source tree does not change from one run to the next
SourceChoices(n) ==
    IF previous_run.ran /\ previous_run.folder[n].state = "dir"
    THEN {previous_run.folder[n]}
    ELSE FolderChoices(subjects[n])

InitRun(ids, modality_suffixes, label_suffixes, label_folders, flags, threads, envs, faults) ==
    /\ subjects \in DistinctSeqs(ids)
    /\ config_dict \in [FileExtension : {Str(ExtN)},
                        Modalities : DistinctSeqs(modality_suffixes),
                        label_suffix : label_suffixes]
    /\ label_folder \in label_folders
    /\ save_label_instance_config \in flags
    /\ num_threads \in threads
    /\ environ \in [N_THREADS : envs]
    /\ faults_left \in faults
    /\ folder = [n \in 1..Len(subjects) |-> Unlisted]
    /\ pc = "start"
    /\ directory_index = 1
    /\ image_suffix = Unbound
    /\ copied_files = <<>>
    /\ collected = 0
    /\ raised_by = "no"
    /\ warnings = {}
    /\ pool = NoPool
    /\ dest = {}
    /\ previous_run = NoPreviousRun
    /\ NoLabelCall
    /\ NoSplitCall
    /\ NoRemoveCall
    /\ NoOrderCall

\* runs over plainly named subjects, with filesystem faults
Explicit == {Number(k) : k \in 1..MaxThreads}
InitFaulty ==
    InitRun({IdP1, IdP2}, {SufA, SufB}, {Str(SufS)}, {TRUE}, BOOLEAN, Explicit, {Unset},
            {MaxFaults})

\* runs over subjects whose names hold the text of a suffix
InitNames ==
    InitRun({IdAn, IdAsn}, {SufExt}, {Str(SufS)}, {TRUE}, {FALSE}, {Number(MaxThreads)},
            {Unset}, {0})

\* runs under every kind of label_suffix and label_folder, and a suffix that does
\* not end with FileExtension
InitConfigs ==
    InitRun({IdP1}, {SufA, SufG}, {None, Str(SufS), List(<<SufS, SufT>>)}, BOOLEAN,
            {FALSE}, {Number(MaxThreads)}, {Unset}, {0})

\* runs with and without num_threads, with and without N_THREADS in the environment
InitThreads ==
    InitRun({IdP1}, {SufA}, {Str(SufS)}, {TRUE}, {FALSE}, {None} \cup Explicit,
            {Unset} \cup {Set(Decimal(k)) : k \in 1..MaxThreads}, {0})

Init == InitFaulty \/ InitNames \/ InitConfigs \/ InitThreads

(***************************************************************************)
(* copy_data_to_dataset_folder, the pool: "if num_threads is None", the    *)
(* try around int(os.environ["N_THREADS"]), and Pool(num_threads).         *)
(***************************************************************************)
\* int(text) of a text of decimal digits
DigitValue(c) == CHOOSE d \in 0..9 : DigitChar(d) = c
RECURSIVE PyInt(_)
PyInt(text) ==
    IF text = <<>> THEN 0
    ELSE 10 * PyInt(SubSeq(text, 1, Len(text) - 1)) + DigitValue(text[Len(text)])

\* the number of workers, and whether the warning is logged
PoolSizeEnvironFirst(threads, env) ==
    IF env.N_THREADS.set THEN [processes |-> PyInt(env.N_THREADS.val), warned |-> FALSE]
    ELSE IF threads.type # "NoneType" THEN [processes |-> threads.val, warned |-> FALSE]
    ELSE [processes |-> 1, warned |-> TRUE]
PoolSize(threads, env) ==
    IF threads.type # "NoneType" THEN [processes |-> threads.val, warned |-> FALSE]
    ELSE IF env.N_THREADS.set
         THEN [processes |-> PyInt(env.N_THREADS.val), warned |-> FALSE]
         ELSE [processes |-> 1, warned |-> TRUE]

ThreadsWarning == [subject |-> 0, kind |-> "N_THREADS", channel |-> 0]

CreatePool ==
    /\ pc = "start"
    /\ LET size == PoolSize(num_threads, environ) IN
        /\ pool' = [state |-> "running", processes |-> size.processes]
        /\ warnings' = IF size.warned THEN warnings \cup {ThreadsWarning} ELSE warnings
    /\ pc' = "classify"
    /\ UNCHANGED <<args, faults_left, folder, directory_index, image_suffix, copied_files,
                   collected, raised_by, dest>>

(***************************************************************************)
(* The destination folders: a set of files, one per path.                  *)
(***************************************************************************)
WriteFile(files, f) ==
    {g \in files : ~(g.folder = f.folder /\ g.name = f.name)} \cup {f}

RECURSIVE WriteFiles(_, _)
WriteFiles(files, fs) ==
    IF fs = {} THEN files
    ELSE LET f == CHOOSE g \in fs : TRUE IN WriteFiles(WriteFile(files, f), fs \ {f})

(***************************************************************************)
(* copy_data_to_dataset_folder, one subject of the loop                    *)
(***************************************************************************)
ClassifySubject ==
    /\ pc = "classify"
    /\ directory_index <= Len(subjects)
    /\ \E content \in SourceChoices(directory_index), sidecar_fails \in BOOLEAN :
        LET r == LoopBody(directory_index, content, sidecar_fails, image_suffix) IN
        /\ sidecar_fails => faults_left > 0 /\ r.raised = "sidecar"
        /\ folder' = [folder EXCEPT ![directory_index] = content]
        /\ faults_left' = IF content.state = "missing" \/ sidecar_fails
                          THEN faults_left - 1 ELSE faults_left
        /\ copied_files' = copied_files \o r.tasks
        /\ warnings' = warnings \cup r.warnings
        /\ image_suffix' = r.image_suffix
        /\ dest' = WriteFiles(dest, r.sidecars)
        /\ raised_by' = r.raised
        /\ pc' = IF r.raised # "no" THEN "raised"
                 ELSE IF directory_index = Len(subjects) THEN "collect" ELSE "classify"
        /\ directory_index' = IF r.raised # "no" THEN directory_index ELSE directory_index + 1
    /\ UNCHANGED <<args, collected, pool>>

\* a loop over no subject
NoSubject ==
    /\ pc = "classify"
    /\ directory_index > Len(subjects)
    /\ pc' = "collect"
    /\ UNCHANGED <<args, faults_left, folder, directory_index, image_suffix, copied_files,
                   collected, raised_by, warnings, pool, dest>>

(***************************************************************************)
(* Volumes (nibabel images): a voxel array with its type, and an affine.   *)
(***************************************************************************)
\* img.get_fdata(): the voxel array as floating point numbers of the same values
get_fdata(img) == [dtype |-> "float64", voxels |-> img.voxels]

\* nib.Nifti1Image(dataobj, affine)
Nifti1Image(dataobj, affine) == Volume(dataobj.dtype, dataobj.voxels, affine)

\* copy_label_file: the volume written to output_filepath
copy_label_file_own_affine(image_nib, label_nib) ==
    Nifti1Image(get_fdata(label_nib), label_nib.affine)
copy_label_file(image_nib, label_nib) ==
    Nifti1Image(get_fdata(label_nib), image_nib.affine)

\* copy_image_file: shutil.copy, the same bytes
copy_image_file(input_file) == input_file

(***************************************************************************)
(* The worker pool: Pool(num_threads) runs the tasks of copied_files.      *)
(***************************************************************************)
Pending == {t \in 1..Len(copied_files) : copied_files[t].status = "pending"}

\* the pool hands the tasks out in the order of submission: task t can run once
\* fewer tasks submitted before it than the pool has workers are unfinished
CanRun(t) ==
    /\ t \in Pending
    /\ Cardinality({u \in Pending : u < t}) < pool.processes

\* a file a task reads is there: the source tree does not change during the run
SourceExists(n, name) == name \in folder[n].names

\* the file a finished task leaves in its destination folder
TaskOutput(task) ==
    [folder |-> task.folder, name |-> task.name,
     content |-> IF task.kind = "image"
                 THEN copy_image_file(SourceVolume(task.subject, task.src))
                 ELSE copy_label_file(SourceVolume(task.subject, task.ref),
                                      SourceVolume(task.subject, task.src))]

\* nib.load(input_image) raises when the reference image is not in the folder
TaskRaises(task, fault) ==
    \/ fault
    \/ task.kind = "label" /\ ~SourceExists(task.subject, task.ref)

ExecTask(t) ==
    /\ pool.state = "running"
    /\ CanRun(t)
    /\ \E fault \in BOOLEAN :
        /\ fault => faults_left > 0
        /\ faults_left' = IF fault THEN faults_left - 1 ELSE faults_left
        /\ IF TaskRaises(copied_files[t], fault)
           THEN /\ copied_files' = [copied_files EXCEPT ![t].status = "failed"]
                /\ dest' = dest
           ELSE /\ copied_files' = [copied_files EXCEPT ![t].status = "done"]
                /\ dest' = WriteFile(dest, TaskOutput(copied_files[t]))
    /\ UNCHANGED <<args, folder, pc, directory_index, image_suffix, collected, raised_by,
                   warnings, pool>>

(***************************************************************************)
(* "_ = [i.get() for i in tqdm(copied_files)]": get() waits for its task   *)
(* and raises what the task raised.                                        *)
(***************************************************************************)
GetRaises(task) == task.status = "failed"

Collect ==
    /\ pc = "collect"
    /\ collected < Len(copied_files)
    /\ copied_files[collected + 1].status \in {"done", "failed"}
    /\ IF GetRaises(copied_files[collected + 1])
       THEN /\ pc' = "raised"
            /\ raised_by' = "task"
            /\ collected' = collected
       ELSE /\ pc' = pc
            /\ raised_by' = raised_by
            /\ collected' = collected + 1
    /\ UNCHANGED <<args, faults_left, folder, directory_index, image_suffix, copied_files,
                   warnings, pool, dest>>

Return ==
    /\ pc = "collect"
    /\ collected = Len(copied_files)
    /\ pc' = "returned"
    /\ UNCHANGED <<args, faults_left, folder, directory_index, image_suffix, copied_files,
                   collected, raised_by, warnings, pool, dest>>

(***************************************************************************)
(* The pool is never closed or joined.  Once the call has ended, the pool  *)
(* object is unreferenced: when it is collected, or when the interpreter   *)
(* exits on the exception, its workers are terminated and the tasks not    *)
(* run yet never run.                                                      *)
(***************************************************************************)
PoolTerminate ==
    /\ pc \in {"returned", "raised"}
    /\ pool.state = "running"
    /\ pool' = [pool EXCEPT !.state = "terminated"]
    /\ UNCHANGED <<args, faults_left, folder, pc, directory_index, image_suffix,
                   copied_files, collected, raised_by, warnings, dest>>

Tasks == 1..Len(copied_files)

RunEnded == pc \in {"returned", "raised"}

\* a label task whose reference image is not in the folder of its subject
ReferenceMissing(t) ==
    /\ copied_files[t].kind = "label"
    /\ ~SourceExists(copied_files[t].subject, copied_files[t].ref)

\* a filesystem fault happened: an unreadable folder, a sidecar that could not be
\* written, a task that failed though its input files were there
FaultFailed(t) == copied_files[t].status = "failed" /\ ~ReferenceMissing(t)
EnvironmentFault ==
    \/ raised_by \in {"listing", "sidecar"}
    \/ \E t \in Tasks : FaultFailed(t)

\* the run is over: the call has ended and no task will run any more
RunOver == RunEnded /\ (pool.state = "terminated" \/ Pending = {})

(***************************************************************************)
(* A second call of copy_data_to_dataset_folder on the same source tree,   *)
(* with the same configuration, into cleared destination folders.          *)
(***************************************************************************)
Rerun ==
    /\ RunOver
    /\ ~previous_run.ran
    /\ ~EnvironmentFault
    /\ previous_run' = [ran |-> TRUE, folder |-> folder, dest |-> dest,
                        processes |-> pool.processes, pc |-> pc]
    /\ num_threads' \in Explicit
    /\ faults_left' = 0
    /\ folder' = [n \in 1..Len(subjects) |-> Unlisted]
    /\ pc' = "start"
    /\ directory_index' = 1
    /\ image_suffix' = Unbound
    /\ copied_files' = <<>>
    /\ collected' = 0
    /\ raised_by' = "no"
    /\ warnings' = {}
    /\ pool' = NoPool
    /\ dest' = {}
    /\ UNCHANGED <<subjects, config_dict, label_folder, save_label_instance_config,
                   environ, label_call, split_call, remove_call, order_call>>

Next ==
    \/ CreatePool
    \/ ClassifySubject
    \/ NoSubject
    \/ \E t \in 1..Len(copied_files) : ExecTask(t)
    \/ Collect
    \/ Return
    \/ PoolTerminate
    \/ Rerun

Spec == Init /\ [][Next]_vars

(***************************************************************************)
(* copy_label_file by itself, on volumes of a few voxels: the label and    *)
(* the reference image each have their own voxel values, type and affine.  *)
(***************************************************************************)
VoxelValues == 0..2
Affines == {<<1, 0>>, <<2, 5>>}
Volumes ==
    {Volume(d, v, a) : d \in {"uint8", "int16"}, v \in [1..MaxVoxels -> VoxelValues],
                       a \in Affines}

\* no run of copy_data_to_dataset_folder
NoRun ==
    /\ subjects = <<>>
    /\ config_dict = [FileExtension |-> Str(ExtN), Modalities |-> <<>>, label_suffix |-> None]
    /\ label_folder = FALSE
    /\ save_label_instance_config = FALSE
    /\ num_threads = Number(1)
    /\ environ = [N_THREADS |-> Unset]
    /\ faults_left = 0
    /\ folder = <<>>
    /\ directory_index = 1
    /\ image_suffix = Unbound
    /\ copied_files = <<>>
    /\ collected = 0
    /\ raised_by = "no"
    /\ warnings = {}
    /\ pool = NoPool
    /\ dest = {}
    /\ previous_run = NoPreviousRun

InitLabel ==
    /\ input_image \in Volumes
    /\ input_label \in Volumes
    /\ output_label = NoVolume
    /\ json_dict = NoJson
    /\ pc = "label"
    /\ NoRun
    /\ NoSplitCall
    /\ NoRemoveCall
    /\ NoOrderCall

CopyLabelFile ==
    /\ pc = "label"
    /\ output_label' = copy_label_file(input_image, input_label)
    /\ pc' = "label done"
    /\ UNCHANGED <<run_vars, input_image, input_label, json_dict, split_call, remove_call, order_call>>

SpecLabel == InitLabel /\ [][CopyLabelFile]_vars

(***************************************************************************)
(* The instance sidecar by itself, on label maps of a few voxels.  A voxel *)
(* value is a whole number or a whole number and a half: a label file may  *)
(* store its values as floating point numbers.                             *)
(***************************************************************************)
Value(whole, half) == [whole |-> whole, half |-> half]
LabelValues ==
    {Value(-1, FALSE), Value(0, FALSE), Value(0, TRUE), Value(1, FALSE), Value(1, TRUE),
     Value(3, FALSE), Value(5, FALSE)}
LabelMaps == {Volume("float32", v, <<1, 0>>) : v \in [1..MaxLabelVoxels -> LabelValues]}

\* np.unique(label_map): the distinct values
np_unique(label_map) == Range(label_map.voxels)

\* instances > 0
IsPositive(i) == i.whole > 0 \/ (i.whole = 0 /\ i.half)

\* int(i) of a value that is not negative: its whole part
int(i) == i.whole

\* json_dict = {"instances": {str(int(i)): 0 for i in instances}}
InstancesWithBackground(label_map) ==
    Json({<<Decimal(int(i)), 0>> : i \in {u \in np_unique(label_map) : u.whole >= 0}})
Instances(label_map) ==
    Json({<<Decimal(int(i)), 0>> : i \in {u \in np_unique(label_map) : IsPositive(u)}})

InitSidecar ==
    /\ input_label \in LabelMaps
    /\ input_image = NoVolume
    /\ output_label = NoVolume
    /\ json_dict = NoJson
    /\ pc = "sidecar"
    /\ NoRun
    /\ NoSplitCall
    /\ NoRemoveCall
    /\ NoOrderCall

SaveInstanceConfig ==
    /\ pc = "sidecar"
    /\ json_dict' = Instances(input_label)
    /\ pc' = "sidecar done"
    /\ UNCHANGED <<run_vars, input_image, input_label, output_label, split_call,
                   remove_call, order_call>>

SpecSidecar == InitSidecar /\ [][SaveInstanceConfig]_vars

(***************************************************************************)
(* split_dataset.  The folder is a set of entries, directories and files;  *)
(* Path.iterdir() yields them in an order of its own at every call.        *)
(***************************************************************************)
\* the characters of the names, in the order of their code points
Alphabet == <<".", "1", "2", "A", "P", "_", "n", "s">>
ord(c) == CHOOSE i \in 1..Len(Alphabet) : Alphabet[i] = c

\* the order of str, which list.sort() uses
RECURSIVE StrLess(_, _)
StrLess(a, b) ==
    IF b = <<>> THEN FALSE
    ELSE IF a = <<>> THEN TRUE
    ELSE IF a[1] # b[1] THEN ord(a[1]) < ord(b[1])
    ELSE StrLess(Tail(a), Tail(b))

\* the orders in which the members of a set can be listed
RECURSIVE Listings(_)
Listings(S) ==
    IF S = {} THEN {<<>>}
    ELSE UNION {{<<x>> \o l : l \in Listings(S \ {x})} : x \in S}

\* res.sort() of a list of names: each name is put in its place among the sorted
\* names before it
RECURSIVE sort(_)
sort(res) ==
    IF res = <<>> THEN <<>>
    ELSE LET last == res[Len(res)]
             front == sort(SubSeq(res, 1, Len(res) - 1))
             below == SelectSeq(front, LAMBDA x : ~StrLess(last, x))
             above == SelectSeq(front, LAMBDA x : StrLess(last, x))
         IN  below \o <<last>> \o above

Entry(name, is_dir) == [name |-> name, is_dir |-> is_dir]
IsDir(i) == i.is_dir
NameOf(entries) == [k \in 1..Len(entries) |-> entries[k].name]

\* subfolders(folder, join=False) over the entries as iterdir yields them
subfoldersUnsorted(iterdir) == NameOf(SelectSeq(iterdir, IsDir))
subfolders(iterdir) == sort(NameOf(SelectSeq(iterdir, IsDir)))

\* random.seed(seed); random.shuffle(x): x is rearranged by the permutation the
\* generator yields for this seed and this length
Shuffled(x, permutation) == [k \in 1..Len(x) |-> x[permutation[k]]]

\* int(len(subjects) * test_split_ratio / 100) of numbers that are not negative
split_index(n, ratio) == n - ((n * ratio) \div 100)

\* the pair split_dataset returns
split_dataset(iterdir, ratio, permutation) ==
    LET shuffled == Shuffled(subfolders(iterdir), permutation) IN
    [train_subjects |-> SubSeq(shuffled, 1, split_index(Len(shuffled), ratio)),
     test_subjects |-> SubSeq(shuffled, split_index(Len(shuffled), ratio) + 1,
                              Len(shuffled))]

SubfolderNames == {IdP1, IdP2, IdAn, IdAsn}
FileNames == {SufExt}
Directories == {d \in SUBSET SubfolderNames : Cardinality(d) <= MaxSubfolders}

InitSplit ==
    /\ \E d \in Directories, f \in SUBSET FileNames :
          /\ input_data_folder =
                {Entry(name, TRUE) : name \in d} \cup {Entry(name, FALSE) : name \in f}
          \* whatever the seed, the generator yields some permutation
          /\ shuffle \in Listings(1..Cardinality(d))
    /\ test_split_ratio \in 0..100
    /\ seed = 6
    /\ splits = <<>>
    /\ pc = "split"
    /\ NoRun
    /\ NoLabelCall
    /\ NoRemoveCall
    /\ NoOrderCall

\* a call of split_dataset, and the call again
SplitDataset ==
    /\ pc = "split"
    /\ Len(splits) <= 1
    /\ \E iterdir \in Listings(input_data_folder) :
          splits' = Append(splits, split_dataset(iterdir, test_split_ratio, shuffle))
    /\ UNCHANGED <<run_vars, pc, label_call, input_data_folder, test_split_ratio, seed,
                   shuffle, remove_call, order_call>>

SpecSplit == InitSplit /\ [][SplitDataset]_vars

(***************************************************************************)
(* remove_empty_folder_recursive.  The tree under the root folder is the   *)
(* set of its nodes, files and directories, each with its path from the    *)
(* root.                                                                   *)
(***************************************************************************)
File(path) == [path |-> path, is_dir |-> FALSE]
Directory(path) == [path |-> path, is_dir |-> TRUE]

\* the nodes of a tree right under the directory at path
Children(t, path) ==
    {node \in t : Len(node.path) = Len(path) + 1
                  /\ SubSeq(node.path, 1, Len(path)) = path}

\* os.rmdir(path): removes an empty directory, raises OSError for any other
rmdir(t, path) ==
    IF Children(t, path) = {}
    THEN [tree |-> t \ {Directory(path)}, raised |-> FALSE]
    ELSE [tree |-> t, raised |-> TRUE]

\* Path(folder_path).glob("*"): the children, in the order of the directory
glob(t, path, order) ==
    SelectSeq([k \in 1..Len(order) |-> path \o <<order[k]>>],
              LAMBDA child : \E node \in Children(t, path) : node.path = child)

\* the loop of remove_empty_folder_recursive over the paths glob listed, and the
\* function itself: the tree it leaves, and whether it raised
RECURSIVE remove_loop(_, _, _)
remove_loop(t, paths, order) ==
    IF paths = <<>> THEN [tree |-> t, raised |-> FALSE]
    ELSE IF Directory(paths[1]) \notin t THEN remove_loop(t, Tail(paths), order)
    ELSE IF ~rmdir(t, paths[1]).raised
         THEN remove_loop(rmdir(t, paths[1]).tree, Tail(paths), order)
         ELSE LET inner == remove_loop(t, glob(t, paths[1], order), order)
                  again == rmdir(inner.tree, paths[1])
              IN  IF inner.raised THEN inner
                  ELSE IF again.raised THEN again
                  ELSE remove_loop(again.tree, Tail(paths), order)

remove_empty_folder_recursive(t, folder_path, order) ==
    remove_loop(t, glob(t, folder_path, order), order)

\* the trees of a depth under a path: a name is free, a file, or a directory
NodeNames == {"a", "b"}
RECURSIVE TreesUnder(_, _, _)
TreesUnder(path, names, depth) ==
    IF depth = 0 \/ names = {} THEN {{}}
    ELSE LET name == CHOOSE x \in names : TRUE
             here == path \o <<name>>
             at_name == {{}} \cup {{File(here)}}
                        \cup {{Directory(here)} \cup below :
                                  below \in TreesUnder(here, NodeNames, depth - 1)}
         IN  {one \cup others : one \in at_name,
                                others \in TreesUnder(path, names \ {name}, depth)}

InitRemove ==
    /\ tree_at_call \in TreesUnder(<<>>, NodeNames, MaxDepth)
    /\ tree = tree_at_call
    /\ glob_order \in Listings(NodeNames)
    /\ rmdir_raised = FALSE
    /\ pc = "remove"
    /\ NoRun
    /\ NoLabelCall
    /\ NoSplitCall
    /\ NoOrderCall

RemoveEmptyFolderRecursive ==
    /\ pc = "remove"
    /\ LET result == remove_empty_folder_recursive(tree, <<>>, glob_order) IN
        /\ tree' = result.tree
        /\ rmdir_raised' = result.raised
    /\ pc' = "remove done"
    /\ UNCHANGED <<run_vars, label_call, split_call, tree_at_call, glob_order, order_call>>

SpecRemove == InitRemove /\ [][RemoveEmptyFolderRecursive]_vars

(***************************************************************************)
(* order_data_folder_by_patient, on a root folder that holds files.  The   *)
(* two glob("*") of the call list the folder in the same order.            *)
(***************************************************************************)
\* the files right under the root, as glob lists them
RootFiles(t, order) == SelectSeq(order, LAMBDA name : File(<<name>>) \in t)

\* str(file_path.name)[: -len(file_pattern)], of a pattern that is not empty
WithoutPattern(name, pattern) == SubSeq(name, 1, Len(name) - Len(pattern))

\* the first loop: one patient ID per file that ends with file_pattern
PatientIds(t, order, pattern) ==
    LET matching == SelectSeq(RootFiles(t, order), LAMBDA name : EndsWith(name, pattern))
    IN  [k \in 1..Len(matching) |-> WithoutPattern(matching[k], pattern)]

\* the second loop: mkdir(exist_ok=True) of every patient ID; it raises
\* FileExistsError when the name is that of a file
RECURSIVE mkdir_loop(_, _)
mkdir_loop(t, ids) ==
    IF ids = <<>> THEN [tree |-> t, raised |-> "no"]
    ELSE IF File(<<ids[1]>>) \in t THEN [tree |-> t, raised |-> "FileExistsError"]
    ELSE mkdir_loop(t \cup {Directory(<<ids[1]>>)}, Tail(ids))

\* Path(file_path).rename(folder_path / patient_id / name)
rename(t, name, patient_id) ==
    IF File(<<name>>) \in t
    THEN [tree |-> (t \ {File(<<name>>)}) \cup {File(<<patient_id, name>>)},
          raised |-> "no"]
    ELSE [tree |-> t, raised |-> "FileNotFoundError"]

\* the inner loop of the third: the file is renamed for every patient ID its name
\* starts with
RECURSIVE move_file(_, _, _)
move_file(t, name, ids) ==
    IF ids = <<>> THEN [tree |-> t, raised |-> "no"]
    ELSE IF ~StartsWith(name, ids[1]) THEN move_file(t, name, Tail(ids))
    ELSE LET moved == rename(t, name, ids[1]) IN
         IF moved.raised # "no" THEN moved ELSE move_file(moved.tree, name, Tail(ids))

\* the third loop, over the files glob listed
RECURSIVE move_loop(_, _, _)
move_loop(t, names, ids) ==
    IF names = <<>> THEN [tree |-> t, raised |-> "no"]
    ELSE LET moved == move_file(t, names[1], ids) IN
         IF moved.raised # "no" THEN moved ELSE move_loop(moved.tree, Tail(names), ids)

\* the tree the call leaves, and what it raised
order_data_folder_by_patient(t, order, pattern) ==
    LET ids == PatientIds(t, order, pattern)
        made == mkdir_loop(t, ids)
    IN  IF made.raised # "no" THEN made
        ELSE move_loop(made.tree, RootFiles(made.tree, order), ids)

IdP10 == <<"P", "1", "0">>
RootNames == {id \o suffix : id \in {IdP1, IdP2, IdP10}, suffix \in {SufA, SufS}}
             \cup {IdP1, IdAn}

InitOrder ==
    /\ \E names \in SUBSET RootNames :
          /\ Cardinality(names) <= MaxFiles
          /\ tree_at_call = {File(<<name>>) : name \in names}
          /\ glob_order \in Listings(names)
    /\ tree = tree_at_call
    /\ rmdir_raised = FALSE
    /\ file_pattern \in {SufA, SufS}
    /\ patient_id_list = <<>>
    /\ order_raised = "no"
    /\ pc = "order"
    /\ NoRun
    /\ NoLabelCall
    /\ NoSplitCall

OrderDataFolderByPatient ==
    /\ pc = "order"
    /\ LET result == order_data_folder_by_patient(tree, glob_order, file_pattern) IN
        /\ tree' = result.tree
        /\ order_raised' = result.raised
    /\ patient_id_list' = PatientIds(tree, glob_order, file_pattern)
    /\ pc' = "order done"
    /\ UNCHANGED <<run_vars, label_call, split_call, tree_at_call, glob_order,
                   rmdir_raised, file_pattern>>

SpecOrder == InitOrder /\ [][OrderDataFolderByPatient]_vars

(***************************************************************************)
(* Vocabulary of the properties.                                           *)
(***************************************************************************)
Subjects == 1..Len(subjects)
ModalityCodes == 0..(Len(image_suffix_list) - 1)

\* the folder of subject n was listed
Classified(n) == folder[n].state = "dir"

ImageFileName(n, m) == subjects[n] \o image_suffix_list[m + 1]
LabelFileName(n) == subjects[n] \o label_suffix.val

ImageTasksOf(n, m) ==
    {t \in Tasks : copied_files[t].kind = "image" /\ copied_files[t].subject = n
                   /\ copied_files[t].channel = m}
LabelTasksOf(n) ==
    {t \in Tasks : copied_files[t].kind = "label" /\ copied_files[t].subject = n}

\* the files of a destination folder that come from the source file `name` of subject n
OutputsOf(out_folder, n, name) ==
    {f \in dest : f.folder = out_folder /\ f.content.voxels = <<n, name>>}

Written(t) ==
    /\ copied_files[t].status = "done"
    /\ \E f \in dest : f.folder = copied_files[t].folder /\ f.name = copied_files[t].name

\* every file the listing of a subject holds for a modality has its copy task
PresentImagesScheduled ==
    \A n \in Subjects, m \in ModalityCodes :
        (Classified(n) /\ ImageFileName(n, m) \in subfiles(folder[n].names, FileExtension))
            => ImageTasksOf(n, m) # {}

\* C1: a subject whose folder lacks the file of a modality gets no image output for
\* that modality, and the run still completes: unless the filesystem fails, the call
\* returns normally with every scheduled copy written.
C1_MissingModalitySkippedRunCompletes ==
    \A n \in Subjects, m \in ModalityCodes :
        (Classified(n) /\ ImageFileName(n, m) \notin folder[n].names) =>
            /\ ImageTasksOf(n, m) = {}
            /\ OutputsOf("images", n, ImageFileName(n, m)) = {}
            /\ (RunEnded /\ ~EnvironmentFault) =>
                    /\ pc = "returned"
                    /\ PresentImagesScheduled
                    /\ \A t \in Tasks : Written(t)

C3_ImageNameKeepsSubject ==
    \A t \in Tasks :
        copied_files[t].kind = "image" =>
            copied_files[t].name =
                subjects[copied_files[t].subject] \o Format04(copied_files[t].channel)
                    \o FileExtension

\* every subject was listed and its folder holds the file of every modality
AllModalityFilesPresent ==
    \A n \in Subjects :
        /\ Classified(n)
        /\ \A m \in ModalityCodes : ImageFileName(n, m) \in folder[n].names

ImageCopyTasks == {t \in Tasks : copied_files[t].kind = "image"}
ImageFiles == {f \in dest : f.folder = "images"}

SuffixesEndWithExtension ==
    \A m \in ModalityCodes : EndsWith(image_suffix_list[m + 1], FileExtension)

ImageNamesDistinct ==
    \A t, u \in ImageCopyTasks : t # u => copied_files[t].name # copied_files[u].name

C5_MultiLabelScheduled ==
    \A n \in Subjects :
        (Classified(n) /\ pc # "raised" /\ config_dict.label_suffix.type = "list"
         /\ label_folder /\ image_suffix_list # <<>>) =>
            \A t \in 1..Len(config_dict.label_suffix.val) :
                (subjects[n] \o config_dict.label_suffix.val[t]) \in folder[n].names =>
                    \E u \in LabelTasksOf(n) :
                        /\ copied_files[u].folder = "labels"
                        /\ copied_files[u].name =
                               subjects[n] \o Format04(t - 1) \o FileExtension

\* C6: the call hands control back (returning or raising) only once every task it
\* scheduled has completed or failed.
C6_CallerWaitsForAllTasks == RunEnded => Pending = {}

\* C7: the failure of one task does not affect the others: once the failure has been
\* raised at collection and the pool is gone, every other task has run to completion
\* and its output is written.
C7_FailureLeavesOtherTasks ==
    (raised_by = "task" /\ pool.state = "terminated") =>
        \A t \in Tasks : copied_files[t].status # "failed" => Written(t)

\* C8: the call raises only when a source folder cannot be listed (here: of the runs
\* with at least one modality, where a label copy always has a reference image name).
C8_OnlyListingIsFatal ==
    (pc = "raised" /\ image_suffix_list # <<>>) => raised_by = "listing"

\* C9: the volume copy_label_file writes has the voxel values of the label and the
\* affine of the reference image.
C9_LabelVoxelsImageAffine ==
    pc = "label done" =>
        /\ output_label.voxels = input_label.voxels
        /\ output_label.affine = input_image.affine

\* a label copied next to an image whose affine is not the label's
C9_Witness ==
    /\ pc = "label done"
    /\ input_label.affine # input_image.affine
    /\ output_label.affine # input_label.affine
    /\ output_label.voxels = input_label.voxels

\* C10: no two scheduled tasks write the same destination path.
C10_DestinationsDisjoint ==
    \A t, u \in Tasks :
        t # u => <<copied_files[t].folder, copied_files[t].name>>
                     # <<copied_files[u].folder, copied_files[u].name>>

\* the paths of a set of destination files
Paths(files) == {<<f.folder, f.name>> : f \in files}

\* C11: a run with one worker and a run with more than one worker over the same
\* source tree and configuration leave the same set of output files (paths), however
\* the tasks of the two runs are interleaved.
C11_SameFilesForAnyWorkerCount ==
    (previous_run.ran /\ RunOver /\ previous_run.processes = 1 /\ pool.processes > 1) =>
        Paths(dest) = Paths(previous_run.dest)

\* C12: without num_threads and without N_THREADS the pool has one worker, the
\* warning is logged and the loop over the subjects is entered; without num_threads
\* and with N_THREADS the pool has as many workers as the number N_THREADS spells; a
\* num_threads that is passed is the number of workers whatever the environment; the
\* warning is logged in the first case only.
C12_PoolSize ==
    pool.state # "none" =>
        /\ pc # "start"
        /\ (num_threads.type = "NoneType" /\ ~environ.N_THREADS.set) =>
                pool.processes = 1 /\ ThreadsWarning \in warnings
        /\ (num_threads.type = "NoneType" /\ environ.N_THREADS.set) =>
                /\ environ.N_THREADS.val = Decimal(pool.processes)
                /\ ThreadsWarning \notin warnings
        /\ num_threads.type = "int" =>
                pool.processes = num_threads.val /\ ThreadsWarning \notin warnings

\* a run without num_threads and without N_THREADS that returned with its image
\* written by the single worker, and a run with num_threads whose N_THREADS spells
\* another number
C12_Witness ==
    \/ /\ num_threads.type = "NoneType"
       /\ ~environ.N_THREADS.set
       /\ pool.processes = 1
       /\ pc = "returned"
       /\ ImageFiles # {}
    \/ /\ num_threads.type = "int"
       /\ environ.N_THREADS.set
       /\ environ.N_THREADS.val # Decimal(num_threads.val)
       /\ pool.processes = num_threads.val
       /\ pc = "returned"

\* the label_suffix of the configuration is None: no label is requested
NoLabelRequested == config_dict.label_suffix.type = "NoneType"

\* C14: when label_suffix is None or label_folder is None, no label copy is
\* scheduled, no label file is looked up (so none is reported missing) and no file is
\* written to the labels folder.
C14_NoLabelWithoutSuffixOrFolder ==
    (NoLabelRequested \/ ~label_folder) =>
        /\ \A t \in Tasks : copied_files[t].kind # "label"
        /\ \A w \in warnings : w.kind # "label"
        /\ \A f \in dest : f.folder # "labels"

\* C15: a second run over the unchanged source tree with the same configuration and
\* as many workers, into cleared destination folders, leaves the same file names with
\* the same contents as the first.
C15_SecondRunSameFiles ==
    (previous_run.ran /\ RunOver /\ previous_run.processes = pool.processes) =>
        dest = previous_run.dest

\* a pair (subject, modality) or (subject, label) whose file the listing lacks
SkippedNoImage(n, m) ==
    Classified(n) /\ ImageFileName(n, m) \notin subfiles(folder[n].names, FileExtension)
SkippedNoLabel(n) ==
    Classified(n) /\ LabelFileName(n) \notin subfiles(folder[n].names, FileExtension)

\* every pair has at most one task, a skipped pair has none
ScheduledOnceOrSkipped ==
    /\ \A n \in Subjects, m \in ModalityCodes :
          /\ Cardinality(ImageTasksOf(n, m)) <= 1
          /\ SkippedNoImage(n, m) => ImageTasksOf(n, m) = {}
    /\ \A n \in Subjects :
          /\ Cardinality(LabelTasksOf(n)) <= 1
          /\ SkippedNoLabel(n) => LabelTasksOf(n) = {}

\* C16: every (subject, channel) pair is scheduled at most once (so never
\* re-submitted), a pair skipped for a missing file is never scheduled, and once a
\* run without filesystem fault is over every scheduled pair is done: its task has
\* run, to completion or to its failure.
C16_PairLifecycle ==
    /\ ScheduledOnceOrSkipped
    /\ (RunOver /\ ~EnvironmentFault) =>
          \A t \in Tasks : copied_files[t].status \in {"done", "failed"}

\* the sidecars in the destination folders
Sidecars == {f \in dest : f.content.dtype = "json"}

\* C17: a sidecar exists only once the label it describes has been written by its
\* copy task.
C17_SidecarAfterLabelWritten ==
    \A f \in Sidecars : \E t \in LabelTasksOf(f.content.voxels[1]) : Written(t)

\* C18: the reference image of a label copy is the file of a modality of the same
\* subject that the listing of its folder holds; no run raises for want of the name
\* of a reference image (a configuration without modalities).
C18_ReferenceIsPresentImage ==
    /\ \A t \in Tasks :
          copied_files[t].kind = "label" =>
              /\ \E m \in ModalityCodes :
                    copied_files[t].ref = ImageFileName(copied_files[t].subject, m)
              /\ copied_files[t].ref \in
                    subfiles(folder[copied_files[t].subject].names, FileExtension)
    /\ raised_by # "unbound"

\* the keys of the sidecar, and the distinct positive values of the label
Keys == {item[1] : item \in json_dict.instances}
PositiveValues == {i \in Range(input_label.voxels) : IsPositive(i)}
WholeValued == \A i \in Range(input_label.voxels) : ~i.half

SubfoldersOf == {i.name : i \in {e \in input_data_folder : e.is_dir}}

\* C19: every call of split_dataset returns two lists without repetition that are
\* disjoint and together hold exactly the subfolders, the test list of
\* floor(n * ratio / 100) entries and the train list of the others; the calls on the
\* same folder, ratio and seed return the same two lists.
C19_SplitIsPartition ==
    \A k \in 1..Len(splits) :
        LET train == splits[k].train_subjects
            test == splits[k].test_subjects
            n == Cardinality(SubfoldersOf)
        IN  /\ Range(train) \cap Range(test) = {}
            /\ Range(train) \cup Range(test) = SubfoldersOf
            /\ Len(test) * 100 <= n * test_split_ratio
            /\ n * test_split_ratio < (Len(test) + 1) * 100
            /\ Len(train) = n - Len(test)
            /\ \A j \in 1..Len(splits) : splits[j] = splits[k]

\* two calls on a folder of three subfolders and a file, one subfolder out of three
\* in the test list, the lists not in alphabetical order
C19_Witness ==
    /\ Len(splits) = 2
    /\ Cardinality(SubfoldersOf) = 3
    /\ Cardinality(input_data_folder) = 4
    /\ Len(splits[2].test_subjects) = 1
    /\ Len(splits[2].train_subjects) = 2
    /\ StrLess(splits[2].train_subjects[2], splits[2].train_subjects[1])

\* a node of the tree at the call that is a file, or a directory with a file somewhere
\* under it
HoldsFile(node) ==
    \/ ~node.is_dir
    \/ \E f \in tree_at_call :
          /\ ~f.is_dir
          /\ Len(f.path) > Len(node.path)
          /\ SubSeq(f.path, 1, Len(node.path)) = node.path

\* C20: after the call every file and every directory that holds a file is in place,
\* no other directory remains, and the call has not raised.
C20_EmptyFoldersRemoved ==
    pc = "remove done" =>
        /\ tree = {node \in tree_at_call : HoldsFile(node)}
        /\ ~rmdir_raised

\* the names of the files of the root folder at the call, and the patient IDs among
\* them: the names that end with file_pattern, without it
NamesAtCall == {node.path[1] : node \in tree_at_call}
PatientIdsAtCall ==
    {WithoutPattern(name, file_pattern) :
        name \in {n \in NamesAtCall : EndsWith(n, file_pattern)}}
Owners(name) == {id \in PatientIdsAtCall : StartsWith(name, id)}

\* C21: on a root folder where no file bears the bare name of a patient ID, the call
\* ends without error and every file of the root folder whose name starts with a
\* patient ID is then in the subdirectory of one such patient, and nowhere else; the
\* other files are where they were.
C21_FilesMovedToPatient ==
    (pc = "order done" /\ PatientIdsAtCall \cap NamesAtCall = {}) =>
        /\ order_raised = "no"
        /\ \A name \in NamesAtCall :
              /\ Cardinality({node \in tree : ~node.is_dir
                                              /\ node.path[Len(node.path)] = name}) = 1
              /\ IF Owners(name) = {} THEN File(<<name>>) \in tree
                 ELSE \E id \in Owners(name) : File(<<id, name>>) \in tree

====
